---- MODULE Spec2Model ----
(***************************************************************************)
(* Real-time presence and message fan-out of the chat backend              *)
(* (backend/socket/socketHandler.js), with the handshake middleware shown  *)
(* in docs/socket-implementation.md.                                       *)
(*                                                                         *)
(* Every handler of the source is an async function: it runs atomically    *)
(* from one await to the next.  Each action below is one such segment: the *)
(* storage call that is awaited takes effect and the code after it runs    *)
(* up to the next await.  A storage call may throw; the handler's catch    *)
(* block then runs in the same step.                                       *)
(***************************************************************************)
EXTENDS Integers, FiniteSets, Sequences, TLC

\* ---------------------------------------------------------------- bounds
MaxEvents == 4      \* inbound events of a run: channel opens, channel closes, client events
MaxTasks == 1       \* handler invocations awaiting storage at one time

\* ---------------------------------------------------------------- fixtures
Users == {"A", "B", "C"}
Chats == {"c1", "c2"}
InboundChats == {"c1"}      \* the chat that inbound payloads name

NoUser == "-"
NoSocket == 0

\* Handshake credentials: a token signed for a user, no token, a token that
\* fails verification.
NoToken == ""
BadToken == "forged"
Tokens == Users \cup {NoToken, BadToken}

VARIABLES
    nEvents,         \* inbound events so far
    sockets,         \* the admitted sockets, by socket id: [status, token, user], where
                     \*   status is "connecting" | "open" | "lost" | "closing" | "closed",
                     \*   token is socket.handshake.auth.token and user is socket.user.id
    connectedUsers,  \* the Map userId -> socketId (NoSocket: no entry)
    messages,        \* storage: message id -> message row
    files,           \* storage: the stored attachments
    lastMessageTime, \* storage: chat -> last-activity timestamp
    tasks,           \* handler invocations awaiting storage
    emitted,         \* the events delivered to channels by the last step
    last,            \* what the last step was: the handler, its socket, how it ended
    client,          \* the ChatProvider of one browser: its React state, its socket, its closures
    remote,          \* the messages the REST services answer with
    outbox,          \* the socket events the browser has emitted, oldest first
    inbox,           \* the socket events on their way to the browser, oldest first
    did              \* what the browser's last step did

vars == <<nEvents, sockets, connectedUsers, messages, files, lastMessageTime, tasks, emitted, last,
          client, remote, outbox, inbox, did>>

\* The slots of the handler invocations that can be pending together.
TaskIds == DOMAIN tasks

server == <<sockets, connectedUsers>>
storage == <<messages, files, lastMessageTime>>
backend == <<sockets, connectedUsers, messages, files, lastMessageTime, tasks, emitted, last>>
browser == <<client, remote, outbox, inbox, did>>

\* ---------------------------------------------------------------- values
NoMsg == [id |-> 0, content |-> "", chatId |-> "", userId |-> NoUser,
          read |-> FALSE, deleted |-> FALSE, edited |-> FALSE, fileId |-> 0]

\* An inbound payload; "", 0 and <<>> stand for a field that is absent.
NoData == [chatId |-> "", content |-> "", messageId |-> 0, filename |-> "",
           fileData |-> <<>>, userId |-> NoUser]

Idle == [kind |-> "idle", pc |-> "", sock |-> NoSocket, data |-> NoData, message |-> NoMsg]

Step(op, s, result, message) == [op |-> op, sock |-> s, result |-> result, message |-> message]

\* A step that ends no handler: it only reaches the next await.
Quiet == Step("", NoSocket, "", NoMsg)

SocketIds == DOMAIN sockets

\* The transport of socket s is open: the server can deliver to it.
TransportOpen(s) == sockets[s].status \in {"connecting", "open"}

\* The open channels of a principal.
ChannelsOf(userId) == {s \in SocketIds : TransportOpen(s) /\ sockets[s].user = userId}

\* io.to(socketId).emit(...) and socket.emit(...): a closed socket has left its
\* room, so an event addressed to it reaches nobody.
Deliver(evs) == {e \in evs : e.to \in SocketIds /\ TransportOpen(e.to)}

ErrorTo(s, text) == [to |-> s, event |-> "error", payload |-> [message |-> text]]

\* ---------------------------------------------------------------- storage collaborator
chatParticipants == [c \in Chats |-> IF c = "c1" THEN {"A", "B"} ELSE {"B", "C"}]

getChatParticipants(chatId) == IF chatId \in Chats THEN chatParticipants[chatId] ELSE {}

isParticipant(chatId, userId) == userId \in getChatParticipants(chatId)

getUserChats(userId) == {c \in Chats : userId \in chatParticipants[c]}

getMessageById(messageId) == IF messageId \in DOMAIN messages THEN messages[messageId] ELSE NoMsg

createMessage(message) == (message.id :> message) @@ messages

\* UPDATE of the named columns of one row; the other columns keep their values.
updateMessage(messageId, fields) ==
    [messages EXCEPT ![messageId] =
        [f \in DOMAIN @ |-> IF f \in DOMAIN fields THEN fields[f] ELSE @[f]]]

Max(S) == CHOOSE x \in S : \A y \in S : y <= x

updateLastMessageTime(chatId) ==
    [lastMessageTime EXCEPT ![chatId] = 1 + Max({lastMessageTime[c] : c \in Chats})]

saveFile(file) == files \cup {file}

\* ---------------------------------------------------------------- presence service
isUserConnected(userId) == connectedUsers[userId] # NoSocket

getConnectedUsers == {u \in Users : connectedUsers[u] # NoSocket}

\* participants.forEach(p => { const s = connectedUsers.get(p); if (s) io.to(s).emit(event, data) })
notifyChat(participants, event, data) ==
    Deliver({[to |-> connectedUsers[p], event |-> event, payload |-> data] :
                p \in {q \in participants : connectedUsers[q] # NoSocket}})

\* ---------------------------------------------------------------- handshake
\* Mutant: the token is decoded, not verified; a forged token names its user.
authenticateSocketToken_decodeOnly(tok) ==
    IF tok = NoToken THEN NoUser
    ELSE IF tok \in Users THEN tok
    ELSE "A"

\* The middleware: next(error) when the token is missing or jwt.verify throws,
\* otherwise socket.user = decoded.  The result is the decoded user id, or NoUser.
authenticateSocketToken(tok) ==
    IF tok = NoToken THEN NoUser
    ELSE IF tok \in Users THEN tok
    ELSE NoUser

\* A channel opens.  The middleware refuses it, and the server keeps nothing
\* of it; or it admits it, the socket gets the next id and the 'connection'
\* handler runs to its first await: it registers the socket and starts
\* reading the user's chats.
Handshake(tok) ==
    /\ nEvents < MaxEvents
    /\ nEvents' = nEvents + 1
    /\ LET userId == authenticateSocketToken(tok)
           s == Len(sockets) + 1 IN
         IF userId = NoUser
           THEN /\ last' = Step("handshake", NoSocket, "rejected", NoMsg)
                /\ UNCHANGED <<sockets, connectedUsers>>
           ELSE /\ sockets' = Append(sockets, [status |-> "connecting", token |-> tok, user |-> userId])
                /\ connectedUsers' = [connectedUsers EXCEPT ![userId] = s]
                /\ last' = Quiet
    /\ emitted' = {}
    /\ UNCHANGED <<storage, tasks, browser>>

\* user:online / user:offline to the other participants of each chat of userId.
PresenceEvents(userId, event) ==
    UNION {notifyChat(chatParticipants[c] \ {userId}, event, [userId |-> userId]) :
             c \in getUserChats(userId)}

\* Mutant: on connection the stored messages of the user's chats are replayed
\* to the new socket.
Connection_replay(s, ok) ==
    /\ sockets[s].status \in {"connecting", "lost"}
    /\ emitted' = IF ok
                    THEN PresenceEvents(sockets[s].user, "user:online")
                         \cup Deliver({[to |-> s, event |-> "chat:message", payload |-> messages[m]] :
                                         m \in {n \in DOMAIN messages :
                                                   sockets[s].user \in chatParticipants[messages[n].chatId]}})
                    ELSE {}
    /\ sockets' = [sockets EXCEPT ![s].status = IF @ = "connecting" THEN "open" ELSE "closed"]
    /\ last' = Step("connection", s, IF ok THEN "ok" ELSE "failed", NoMsg)
    /\ UNCHANGED <<nEvents, connectedUsers, storage, tasks, browser>>

\* Mutant: without the try/catch a throw of getUserChats ends the handler
\* before it installs anything, and the socket is dropped.
Connection_uncaught(s, ok) ==
    /\ sockets[s].status \in {"connecting", "lost"}
    /\ emitted' = IF ok THEN PresenceEvents(sockets[s].user, "user:online") ELSE {}
    /\ sockets' = [sockets EXCEPT ![s].status = IF @ = "connecting" /\ ok THEN "open" ELSE "closed"]
    /\ last' = Step("connection", s, IF ok THEN "ok" ELSE "failed", NoMsg)
    /\ UNCHANGED <<nEvents, connectedUsers, storage, tasks, browser>>

\* The 'connection' handler resumes after getUserChats: it announces the
\* user and installs the socket's handlers.  The socket may have closed
\* meanwhile ("lost"): its 'disconnect' event fired before any handler was
\* installed.
Connection(s, ok) ==
    /\ sockets[s].status \in {"connecting", "lost"}
    /\ emitted' = IF ok THEN PresenceEvents(sockets[s].user, "user:online") ELSE {}
    /\ sockets' = [sockets EXCEPT ![s].status = IF @ = "connecting" THEN "open" ELSE "closed"]
    /\ last' = Step("connection", s, IF ok THEN "ok" ELSE "failed", NoMsg)
    /\ UNCHANGED <<nEvents, connectedUsers, storage, tasks, browser>>

\* The transport closes.  With the handlers installed, the 'disconnect' handler
\* runs to its first await: it deletes the user's entry from the map.
Disconnect(s) ==
    /\ nEvents < MaxEvents
    /\ nEvents' = nEvents + 1
    /\ TransportOpen(s)
    /\ IF sockets[s].status = "open"
         THEN /\ connectedUsers' = [connectedUsers EXCEPT ![sockets[s].user] = NoSocket]
              /\ sockets' = [sockets EXCEPT ![s].status = "closing"]
              /\ last' = Quiet
         ELSE /\ sockets' = [sockets EXCEPT ![s].status = "lost"]
              /\ last' = Step("disconnect", s, "unhandled", NoMsg)
              /\ UNCHANGED connectedUsers
    /\ emitted' = {}
    /\ UNCHANGED <<storage, tasks, browser>>

\* The 'disconnect' handler resumes after getUserChats.
Disconnected(s, ok) ==
    /\ sockets[s].status = "closing"
    /\ emitted' = IF ok THEN PresenceEvents(sockets[s].user, "user:offline") ELSE {}
    /\ sockets' = [sockets EXCEPT ![s].status = "closed"]
    /\ last' = Step("disconnect", s, IF ok THEN "ok" ELSE "failed", NoMsg)
    /\ UNCHANGED <<nEvents, connectedUsers, storage, tasks, browser>>

\* ---------------------------------------------------------------- handler invocations
FreeSlot(i) == tasks[i].kind = "idle" /\ \A j \in TaskIds : j < i => tasks[j].kind # "idle"

At(i, kind, pc) == tasks[i].kind = kind /\ tasks[i].pc = pc

\* const userId = socket.user.id, as the handlers of the socket see it
UserOf(i) == sockets[tasks[i].sock].user

\* An inbound event reaches a socket whose handlers are installed.  The handler
\* validates the payload and, when it is complete, awaits its first storage call.
Receive(s, i, kind, data, valid, text, pc) ==
    /\ nEvents < MaxEvents
    /\ nEvents' = nEvents + 1
    /\ sockets[s].status = "open"
    /\ FreeSlot(i)
    /\ IF valid
         THEN /\ tasks' = [tasks EXCEPT ![i] = [kind |-> kind, pc |-> pc, sock |-> s,
                                                data |-> data, message |-> NoMsg]]
              /\ emitted' = {}
              /\ last' = Quiet
         ELSE /\ emitted' = Deliver({ErrorTo(s, text)})
              /\ last' = Step(kind, s, "invalid", NoMsg)
              /\ UNCHANGED tasks
    /\ UNCHANGED <<server, storage, browser>>

\* Mutant: the error is emitted to every socket (io.emit for socket.emit).
Reject_toAll(i, result, text) ==
    /\ emitted' = Deliver({ErrorTo(s, text) : s \in SocketIds})
    /\ last' = Step(tasks[i].kind, tasks[i].sock, result, NoMsg)
    /\ tasks' = [tasks EXCEPT ![i] = Idle]
    /\ UNCHANGED <<nEvents, server, storage, browser>>

\* The handler returns early or its catch block runs: only the error goes out.
Reject(i, result, text) ==
    /\ emitted' = Deliver({ErrorTo(tasks[i].sock, text)})
    /\ last' = Step(tasks[i].kind, tasks[i].sock, result, NoMsg)
    /\ tasks' = [tasks EXCEPT ![i] = Idle]
    /\ UNCHANGED <<nEvents, server, storage, browser>>

\* The handler goes on to await its next storage call.
Await(i, pc, message) ==
    /\ tasks' = [tasks EXCEPT ![i].pc = pc, ![i].message = message]
    /\ emitted' = {}
    /\ last' = Quiet
    /\ UNCHANGED <<nEvents, server, browser>>

\* The handler's last segment: the forEach over the participants.
FanOut(i, event, data, message) ==
    /\ emitted' = notifyChat(getChatParticipants(message.chatId), event, data)
    /\ last' = Step(tasks[i].kind, tasks[i].sock, "ok", message)
    /\ tasks' = [tasks EXCEPT ![i] = Idle]
    /\ UNCHANGED <<nEvents, server, storage, browser>>

\* ---------------------------------------------------------------- sendMessage
\* uuidv4(): an id no message and no handler holds.
UsedIds == DOMAIN messages \cup {tasks[i].message.id : i \in TaskIds}

uuidv4 == CHOOSE m \in 1..(Cardinality(UsedIds) + 1) : m \notin UsedIds /\ \A n \in 1..(m - 1) : n \in UsedIds

\* Mutant: the author is read from the payload.
NewMessage_fromPayload(userId, data) ==
    [id |-> uuidv4, content |-> data.content, chatId |-> data.chatId, userId |-> data.userId,
     read |-> FALSE, deleted |-> FALSE, edited |-> FALSE, fileId |-> 0]

\* const { chatId, content } = data; message = { id, content, chatId, userId, ... }
NewMessage(userId, data) ==
    [id |-> uuidv4, content |-> data.content, chatId |-> data.chatId, userId |-> userId,
     read |-> FALSE, deleted |-> FALSE, edited |-> FALSE, fileId |-> 0]

\* The payloads a client sends: any chat or none, a body or none, and a userId
\* field naming whom the sender claims to be.
SendData == {[NoData EXCEPT !.chatId = c, !.content = b, !.userId = u] :
                c \in InboundChats \cup {""}, b \in {"hello", ""}, u \in {"B"}}

SendMessage(s, i, data) ==
    Receive(s, i, "sendMessage", data, data.chatId # "" /\ data.content # "",
            "Datos incompletos para enviar mensaje", "isParticipant")

\* Mutant: the participant check is left out.
SendMessage_isParticipant_unchecked(i, ok) ==
    /\ At(i, "sendMessage", "isParticipant")
    /\ IF ~ok THEN Reject(i, "failed", "Error al enviar mensaje")
       ELSE /\ Await(i, "createMessage", NewMessage(UserOf(i), tasks[i].data))
            /\ UNCHANGED storage

SendMessage_isParticipant(i, ok) ==
    /\ At(i, "sendMessage", "isParticipant")
    /\ IF ~ok THEN Reject(i, "failed", "Error al enviar mensaje")
       ELSE IF ~isParticipant(tasks[i].data.chatId, UserOf(i))
         THEN Reject(i, "forbidden", "No eres participante de este chat")
         ELSE /\ Await(i, "createMessage", NewMessage(UserOf(i), tasks[i].data))
              /\ UNCHANGED storage

\* Mutant: the handler goes on without having stored the message.
SendMessage_createMessage_unsaved(i, ok) ==
    /\ At(i, "sendMessage", "createMessage")
    /\ IF ~ok THEN Reject(i, "failed", "Error al enviar mensaje")
       ELSE /\ Await(i, "updateLastMessageTime", tasks[i].message)
            /\ UNCHANGED storage

SendMessage_createMessage(i, ok) ==
    /\ At(i, "sendMessage", "createMessage")
    /\ IF ~ok THEN Reject(i, "failed", "Error al enviar mensaje")
       ELSE /\ messages' = createMessage(tasks[i].message)
            /\ Await(i, "updateLastMessageTime", tasks[i].message)
            /\ UNCHANGED <<files, lastMessageTime>>

SendMessage_updateLastMessageTime(i, ok) ==
    /\ At(i, "sendMessage", "updateLastMessageTime")
    /\ IF ~ok THEN Reject(i, "failed", "Error al enviar mensaje")
       ELSE /\ lastMessageTime' = updateLastMessageTime(tasks[i].message.chatId)
            /\ Await(i, "getChatParticipants", tasks[i].message)
            /\ UNCHANGED <<messages, files>>

\* Mutant: when reading the participants fails the sender still gets its message.
SendMessage_getChatParticipants_echo(i, ok) ==
    /\ At(i, "sendMessage", "getChatParticipants")
    /\ IF ~ok
         THEN /\ emitted' = Deliver({ErrorTo(tasks[i].sock, "Error al enviar mensaje"),
                                     [to |-> tasks[i].sock, event |-> "chat:message",
                                      payload |-> tasks[i].message]})
              /\ last' = Step(tasks[i].kind, tasks[i].sock, "failed", NoMsg)
              /\ tasks' = [tasks EXCEPT ![i] = Idle]
              /\ UNCHANGED <<nEvents, server, storage, browser>>
         ELSE FanOut(i, "chat:message", tasks[i].message, tasks[i].message)

SendMessage_getChatParticipants(i, ok) ==
    /\ At(i, "sendMessage", "getChatParticipants")
    /\ IF ~ok THEN Reject(i, "failed", "Error al enviar mensaje")
       ELSE FanOut(i, "chat:message", tasks[i].message, tasks[i].message)

\* ---------------------------------------------------------------- editMessage
\* The message ids a client may name: none, a stored message, an id with no row.
NamedIds == {0} \cup DOMAIN messages \cup {1 + Cardinality(DOMAIN messages)}

EditData == {[NoData EXCEPT !.messageId = m, !.content = b] : m \in NamedIds, b \in {"edited", ""}}

EditMessage(s, i, data) ==
    Receive(s, i, "editMessage", data, data.messageId # 0 /\ data.content # "",
            "Datos incompletos para editar mensaje", "getMessageById")

\* Mutant: the ownership check is left out.
EditMessage_getMessageById_unchecked(i, ok) ==
    /\ At(i, "editMessage", "getMessageById")
    /\ LET originalMessage == getMessageById(tasks[i].data.messageId) IN
         IF ~ok \/ originalMessage = NoMsg THEN Reject(i, "failed", "Error al editar mensaje")
         ELSE /\ Await(i, "updateMessage", originalMessage)
              /\ UNCHANGED storage

\* originalMessage.userId of a missing row throws: the catch block answers.
EditMessage_getMessageById(i, ok) ==
    /\ At(i, "editMessage", "getMessageById")
    /\ LET originalMessage == getMessageById(tasks[i].data.messageId) IN
         IF ~ok \/ originalMessage = NoMsg THEN Reject(i, "failed", "Error al editar mensaje")
         ELSE IF originalMessage.userId # UserOf(i)
           THEN Reject(i, "forbidden", "No tienes permiso para editar este mensaje")
           ELSE /\ Await(i, "updateMessage", originalMessage)
                /\ UNCHANGED storage

EditMessage_updateMessage(i, ok) ==
    /\ At(i, "editMessage", "updateMessage")
    /\ IF ~ok THEN Reject(i, "failed", "Error al editar mensaje")
       ELSE /\ messages' = updateMessage(tasks[i].data.messageId,
                                         [content |-> tasks[i].data.content, edited |-> TRUE])
            /\ Await(i, "getChatParticipants", tasks[i].message)
            /\ UNCHANGED <<files, lastMessageTime>>

\* updatedMessage = {...originalMessage, content, edited: true}
UpdatedMessage(originalMessage, content) ==
    [originalMessage EXCEPT !.content = content, !.edited = TRUE]

EditMessage_getChatParticipants(i, ok) ==
    /\ At(i, "editMessage", "getChatParticipants")
    /\ IF ~ok THEN Reject(i, "failed", "Error al editar mensaje")
       ELSE FanOut(i, "chat:message:update",
                   UpdatedMessage(tasks[i].message, tasks[i].data.content), tasks[i].message)

\* ---------------------------------------------------------------- deleteMessage
DeleteData == {[NoData EXCEPT !.messageId = m] : m \in NamedIds}

DeleteMessage(s, i, data) ==
    Receive(s, i, "deleteMessage", data, data.messageId # 0,
            "ID de mensaje requerido", "getMessageById")

\* Mutant: a message that is not found makes the handler return silently.
DeleteMessage_getMessageById_silent(i, ok) ==
    /\ At(i, "deleteMessage", "getMessageById")
    /\ LET originalMessage == getMessageById(tasks[i].data.messageId) IN
         IF ~ok THEN Reject(i, "failed", "Error al eliminar mensaje")
         ELSE IF originalMessage = NoMsg
           THEN /\ emitted' = {}
                /\ last' = Step(tasks[i].kind, tasks[i].sock, "failed", NoMsg)
                /\ tasks' = [tasks EXCEPT ![i] = Idle]
                /\ UNCHANGED <<nEvents, server, storage, browser>>
         ELSE IF originalMessage.userId # UserOf(i)
           THEN Reject(i, "forbidden", "No tienes permiso para eliminar este mensaje")
           ELSE /\ Await(i, "updateMessage", originalMessage)
                /\ UNCHANGED storage

\* originalMessage.userId of a missing row throws: the catch block answers.
DeleteMessage_getMessageById(i, ok) ==
    /\ At(i, "deleteMessage", "getMessageById")
    /\ LET originalMessage == getMessageById(tasks[i].data.messageId) IN
         IF ~ok \/ originalMessage = NoMsg THEN Reject(i, "failed", "Error al eliminar mensaje")
         ELSE IF originalMessage.userId # UserOf(i)
           THEN Reject(i, "forbidden", "No tienes permiso para eliminar este mensaje")
           ELSE /\ Await(i, "updateMessage", originalMessage)
                /\ UNCHANGED storage

\* Mutant: the delete also blanks the body.
DeleteMessage_updateMessage_wipe(i, ok) ==
    /\ At(i, "deleteMessage", "updateMessage")
    /\ IF ~ok THEN Reject(i, "failed", "Error al eliminar mensaje")
       ELSE /\ messages' = updateMessage(tasks[i].data.messageId, [deleted |-> TRUE, content |-> ""])
            /\ Await(i, "getChatParticipants", tasks[i].message)
            /\ UNCHANGED <<files, lastMessageTime>>

DeleteMessage_updateMessage(i, ok) ==
    /\ At(i, "deleteMessage", "updateMessage")
    /\ IF ~ok THEN Reject(i, "failed", "Error al eliminar mensaje")
       ELSE /\ messages' = updateMessage(tasks[i].data.messageId, [deleted |-> TRUE])
            /\ Await(i, "getChatParticipants", tasks[i].message)
            /\ UNCHANGED <<files, lastMessageTime>>

\* io.to(...).emit('chat:message:delete', messageId)
DeletePayload(messageId) == [messageId |-> messageId]

DeleteMessage_getChatParticipants(i, ok) ==
    /\ At(i, "deleteMessage", "getChatParticipants")
    /\ IF ~ok THEN Reject(i, "failed", "Error al eliminar mensaje")
       ELSE FanOut(i, "chat:message:delete", DeletePayload(tasks[i].data.messageId), tasks[i].message)

\* ---------------------------------------------------------------- sendFile
\* A data URI as its parts: "data:", the media type, ";base64,", the encoded bytes.
DataUri == <<"data:", "text/plain", ";base64,", "aGk=">>
FileDatas == {<<>>, DataUri, <<"aGk=">>}

\* fileData.match(/^data:(.+);base64,(.+)$/) with its two groups non-empty
MatchesDataUri(fileData) ==
    /\ Len(fileData) = 4
    /\ fileData[1] = "data:" /\ fileData[2] # ""
    /\ fileData[3] = ";base64," /\ fileData[4] # ""

FileData == {[NoData EXCEPT !.chatId = c, !.filename = f, !.fileData = d] :
                c \in InboundChats \cup {""}, f \in {"", "a.txt"}, d \in FileDatas}

\* Mutant: the filename is not among the required fields.
SendFile_anyFilename(s, i, data) ==
    Receive(s, i, "sendFile", data,
            data.chatId # "" /\ data.fileData # <<>>,
            "Datos incompletos para enviar archivo", "isParticipant")

SendFile(s, i, data) ==
    Receive(s, i, "sendFile", data,
            data.chatId # "" /\ data.filename # "" /\ data.fileData # <<>>,
            "Datos incompletos para enviar archivo", "isParticipant")

\* Mutant: the envelope is not matched against the data URI form.
SendFile_isParticipant_anyEnvelope(i, ok) ==
    /\ At(i, "sendFile", "isParticipant")
    /\ IF ~ok THEN Reject(i, "failed", "Error al enviar archivo")
       ELSE IF ~isParticipant(tasks[i].data.chatId, UserOf(i))
         THEN Reject(i, "forbidden", "No eres participante de este chat")
         ELSE /\ Await(i, "saveFile", NoMsg)
              /\ UNCHANGED storage

SendFile_isParticipant(i, ok) ==
    /\ At(i, "sendFile", "isParticipant")
    /\ IF ~ok THEN Reject(i, "failed", "Error al enviar archivo")
       ELSE IF ~isParticipant(tasks[i].data.chatId, UserOf(i))
         THEN Reject(i, "forbidden", "No eres participante de este chat")
       ELSE IF ~MatchesDataUri(tasks[i].data.fileData)
         THEN Reject(i, "malformed", "Formato de archivo inválido")
         ELSE /\ Await(i, "saveFile", NoMsg)
              /\ UNCHANGED storage

\* The id the files table gives the new row.
NewFileId == 1 + Cardinality(files)

\* message = { id, content: `Archivo: ${filename}`, chatId, userId, ..., fileId, fileName }
NewFileMessage(userId, data, fileId) ==
    [id |-> uuidv4, content |-> data.filename, chatId |-> data.chatId, userId |-> userId,
     read |-> FALSE, deleted |-> FALSE, edited |-> FALSE, fileId |-> fileId]

SendFile_saveFile(i, ok) ==
    /\ At(i, "sendFile", "saveFile")
    /\ IF ~ok THEN Reject(i, "failed", "Error al enviar archivo")
       ELSE /\ files' = saveFile([id |-> NewFileId, filename |-> tasks[i].data.filename,
                                  uploaded_by |-> UserOf(i)])
            /\ Await(i, "createMessage", NewFileMessage(UserOf(i), tasks[i].data, NewFileId))
            /\ UNCHANGED <<messages, lastMessageTime>>

SendFile_createMessage(i, ok) ==
    /\ At(i, "sendFile", "createMessage")
    /\ IF ~ok THEN Reject(i, "failed", "Error al enviar archivo")
       ELSE /\ messages' = createMessage(tasks[i].message)
            /\ Await(i, "updateLastMessageTime", tasks[i].message)
            /\ UNCHANGED <<files, lastMessageTime>>

SendFile_updateLastMessageTime(i, ok) ==
    /\ At(i, "sendFile", "updateLastMessageTime")
    /\ IF ~ok THEN Reject(i, "failed", "Error al enviar archivo")
       ELSE /\ lastMessageTime' = updateLastMessageTime(tasks[i].message.chatId)
            /\ Await(i, "getChatParticipants", tasks[i].message)
            /\ UNCHANGED <<messages, files>>

SendFile_getChatParticipants(i, ok) ==
    /\ At(i, "sendFile", "getChatParticipants")
    /\ IF ~ok THEN Reject(i, "failed", "Error al enviar archivo")
       ELSE FanOut(i, "chat:message", tasks[i].message, tasks[i].message)

\* ---------------------------------------------------------------- socket service
\* The functions the module returns to the API controllers.
ServiceEvents == {"chat:new"}
Service == {"notifyUser", "notifyChat", "isUserConnected", "getConnectedUsers"}

\* A call of a controller: a budgeted input, as an inbound event is.
Called(op, result) ==
    /\ nEvents < MaxEvents
    /\ nEvents' = nEvents + 1
    /\ last' = Step(op, NoSocket, result, NoMsg)

\* Mutant: an entry whose socket has closed is removed on the way.
NotifyUser_prune(userId, event) ==
    /\ Called("notifyUser", "ok")
    /\ emitted' = IF connectedUsers[userId] # NoSocket
                    THEN Deliver({[to |-> connectedUsers[userId], event |-> event,
                                   payload |-> [userId |-> userId]]})
                    ELSE {}
    /\ connectedUsers' = IF connectedUsers[userId] # NoSocket /\ emitted' = {}
                           THEN [connectedUsers EXCEPT ![userId] = NoSocket]
                           ELSE connectedUsers
    /\ UNCHANGED <<sockets, storage, tasks, browser>>

\* notifyUser(userId, event, data)
NotifyUser(userId, event) ==
    /\ Called("notifyUser", "ok")
    /\ emitted' = IF connectedUsers[userId] # NoSocket
                    THEN Deliver({[to |-> connectedUsers[userId], event |-> event,
                                   payload |-> [userId |-> userId]]})
                    ELSE {}
    /\ UNCHANGED <<server, storage, tasks, browser>>

\* notifyChat(chatId, event, data) up to its await
NotifyChat(i, chatId, event) ==
    /\ nEvents < MaxEvents
    /\ nEvents' = nEvents + 1
    /\ FreeSlot(i)
    /\ tasks' = [tasks EXCEPT ![i] = [kind |-> "notifyChat", pc |-> "getChatParticipants",
                                      sock |-> NoSocket,
                                      data |-> [NoData EXCEPT !.chatId = chatId, !.content = event],
                                      message |-> NoMsg]]
    /\ emitted' = {}
    /\ last' = Quiet
    /\ UNCHANGED <<server, storage, browser>>

\* notifyChat after getChatParticipants: the forEach, or the catch block,
\* which only logs.
NotifyChat_getChatParticipants(i, ok) ==
    /\ At(i, "notifyChat", "getChatParticipants")
    /\ emitted' = IF ok THEN notifyChat(getChatParticipants(tasks[i].data.chatId),
                                        tasks[i].data.content, [chatId |-> tasks[i].data.chatId])
                  ELSE {}
    /\ last' = Step("notifyChat", NoSocket, IF ok THEN "ok" ELSE "failed", NoMsg)
    /\ tasks' = [tasks EXCEPT ![i] = Idle]
    /\ UNCHANGED <<nEvents, server, storage, browser>>

\* isUserConnected(userId): connectedUsers.has(userId)
IsUserConnected(userId) ==
    /\ Called("isUserConnected", IF isUserConnected(userId) THEN "true" ELSE "false")
    /\ emitted' = {}
    /\ UNCHANGED <<server, storage, tasks, browser>>

\* getConnectedUsers(): Array.from(connectedUsers.keys()), a new array
GetConnectedUsers ==
    /\ Called("getConnectedUsers", IF getConnectedUsers = {} THEN "none" ELSE "some")
    /\ emitted' = {}
    /\ UNCHANGED <<server, storage, tasks, browser>>

\* ---------------------------------------------------------------- the browser
\* ChatProvider of the principal signed in at one browser.  B takes part in
\* both chats.
currentUser == "B"

\* MessageType as the browser holds it; NoMessage is lastMessage: null.
NoMessage == [id |-> 0, chatId |-> "", userId |-> NoUser, content |-> "", createdAt |-> 0,
              read |-> FALSE, edited |-> FALSE, deleted |-> FALSE]

\* What the component body of one render sees of the state.
Render(activeChat, activeChatMessages, chats) ==
    [activeChat |-> activeChat, activeChatMessages |-> activeChatMessages, chats |-> chats]

\* A promise the provider awaits: a REST call issued from the render `render`.
Op(kind, chatId, messageId, content, render) ==
    [kind |-> kind, chatId |-> chatId, messageId |-> messageId, content |-> content,
     activeChat |-> render.activeChat, chats |-> render.chats]

\* What the browser's last step did: the function, the path it took, its message.
Did(op, path, message) == [op |-> op, path |-> path, message |-> message]
Nothing == Did("", "", NoMessage)

\* A socket event with its payload.
Event(event, message) == [event |-> event, message |-> message]

Map(s, F(_)) == [k \in 1..Len(s) |-> F(s[k])]

\* arr.sort((a, b) => b.createdAt - a.createdAt)[0] || null: the sort is stable
Newest(s) ==
    IF s = <<>> THEN NoMessage
    ELSE s[CHOOSE k \in 1..Len(s) :
               /\ \A j \in 1..Len(s) : s[j].createdAt <= s[k].createdAt
               /\ \A j \in 1..(k - 1) : s[j].createdAt < s[k].createdAt]

\* GET /messages/:chatId and GET /chats, answered from the stored messages
getMessages(chatId) == SelectSeq(remote, LAMBDA m : m.chatId = chatId /\ ~m.deleted)
ChatIds == <<"c1", "c2">>
getChats == Map(ChatIds, LAMBDA c : [id |-> c, lastMessage |-> Newest(getMessages(c))])

\* io(BACKEND_URL, { reconnection: true, reconnectionAttempts: 5, ... })
reconnectionAttempts == 5

\* The socket's connection manager: "opening" (the first open is under way),
\* "open", "lost" (closed unexpectedly: reconnecting), "failed" (the attempts
\* are used up), "closed" (disconnected by the provider); the reconnection
\* attempts made since the closure and those under way.
Manager(state, attempts, inFlight) == [state |-> state, attempts |-> attempts, inFlight |-> inFlight]

\* The render the effect runs in when the user signs in: nothing loaded yet.
ClientStart ==
    [connected |-> FALSE, isConnected |-> FALSE, manager |-> Manager("opening", 0, 0),
     chats |-> <<>>, activeChat |-> "", activeChatMessages |-> <<>>,
     unreadMessagesCount |-> 0,
     closure |-> Render("", <<>>, <<>>),
     pending |-> {Op("loadChats", "", 0, "", Render("", <<>>, <<>>))}]

\* The messages stored before the user signs in: one of A in c1.
History ==
    <<[id |-> 1, chatId |-> "c1", userId |-> "A", content |-> "hello", createdAt |-> 1,
       read |-> FALSE, edited |-> FALSE, deleted |-> FALSE]>>

BrowserStart ==
    /\ client = ClientStart
    /\ remote = History
    /\ outbox = <<>>
    /\ inbox = <<>>
    /\ did = Nothing

\* The values of the current render.
Current == Render(client.activeChat, client.activeChatMessages, client.chats)

\* A budgeted step of the browser's surroundings or of its user.
Input == nEvents < MaxEvents /\ nEvents' = nEvents + 1

\* socket.on('connect'), also after a reconnection of the same socket
Connect ==
    /\ Input
    /\ ~client.connected
    /\ client' = [client EXCEPT !.connected = TRUE, !.isConnected = TRUE]
    /\ did' = Nothing
    /\ UNCHANGED <<remote, outbox, inbox, backend>>

\* socket.on('disconnect'): the transport closed; what was on its way is lost
Drop ==
    /\ Input
    /\ client.connected
    /\ client' = [client EXCEPT !.connected = FALSE, !.isConnected = FALSE]
    /\ inbox' = <<>>
    /\ did' = Nothing
    /\ UNCHANGED <<remote, outbox, backend>>

\* useEffect(..., [currentUser]) runs again (the user object changed): the
\* cleanup disconnects the socket, a new socket gets handlers that close over
\* this render, and loadChats() is called.
ConnectEffect ==
    /\ Input
    /\ client' = [client EXCEPT !.connected = FALSE, !.isConnected = FALSE,
                                !.closure = Current,
                                !.pending = @ \cup {Op("loadChats", "", 0, "", Current)}]
    /\ inbox' = <<>>
    /\ did' = Nothing
    /\ UNCHANGED <<remote, outbox, backend>>

\* The promise `op` settles: it leaves the pending set.
Settled(op, kind) == op \in client.pending /\ op.kind = kind

\* chat.lastMessage && !chat.lastMessage.read && chat.lastMessage.userId !== currentUser.id
CountsAsUnread(chat) ==
    chat.lastMessage # NoMessage /\ ~chat.lastMessage.read /\ chat.lastMessage.userId # currentUser

UnreadIn(chats) == Cardinality({k \in 1..Len(chats) : CountsAsUnread(chats[k])})

\* loadChats after await chatService.getChats()
loadChats(op, ok) ==
    /\ Settled(op, "loadChats")
    /\ client' = IF ok
                   THEN [client EXCEPT !.chats = getChats,
                                       !.unreadMessagesCount = UnreadIn(getChats),
                                       !.pending = @ \ {op}]
                   ELSE [client EXCEPT !.pending = @ \ {op}]
    /\ did' = Nothing
    /\ UNCHANGED <<nEvents, remote, outbox, inbox, backend>>

\* setActiveChat(chatId): chats.find, setActiveChatState, loadMessages up to its await
setActiveChat(chatId) ==
    /\ Input
    /\ client' = IF \E k \in 1..Len(client.chats) : client.chats[k].id = chatId
                   THEN [client EXCEPT !.activeChat = chatId,
                                       !.pending = @ \cup {Op("loadMessages", chatId, 0, "", Current)}]
                   ELSE client
    /\ did' = Nothing
    /\ UNCHANGED <<remote, outbox, inbox, backend>>

\* loadMessages after await messageService.getMessages(chatId), up to the
\* await inside markChatAsRead
loadMessages(op, ok) ==
    /\ Settled(op, "loadMessages")
    /\ client' = IF ok
                   THEN [client EXCEPT !.activeChatMessages = getMessages(op.chatId),
                                       !.pending = (@ \ {op}) \cup {[op EXCEPT !.kind = "markAsRead"]}]
                   ELSE [client EXCEPT !.pending = @ \ {op}]
    /\ did' = Nothing
    /\ UNCHANGED <<nEvents, remote, outbox, inbox, backend>>

\* markChatAsRead after await messageService.markAsRead(chatId): the chat's
\* last message is marked read, and recalculateUnreadCount counts in the
\* chats of the render that made the call.
markChatAsRead(op, ok) ==
    /\ Settled(op, "markAsRead")
    /\ client' = IF ok
                   THEN [client EXCEPT
                           !.chats = Map(@, LAMBDA chat :
                                           IF chat.id = op.chatId /\ chat.lastMessage # NoMessage
                                             THEN [chat EXCEPT !.lastMessage.read = TRUE]
                                             ELSE chat),
                           !.unreadMessagesCount = UnreadIn(op.chats),
                           !.pending = @ \ {op}]
                   ELSE [client EXCEPT !.pending = @ \ {op}]
    /\ did' = Nothing
    /\ UNCHANGED <<nEvents, remote, outbox, inbox, backend>>

\* A client event for the server.
Request(event, chatId, messageId, content) ==
    [event |-> event, chatId |-> chatId, messageId |-> messageId, content |-> content]

\* messageService.sendMessage / updateMessage / deleteMessage
RestCall == [sendMessage |-> "rest:sendMessage", editMessage |-> "rest:updateMessage",
             deleteMessage |-> "rest:deleteMessage"]

\* The body of sendMessage, editMessage and deleteMessage after validation:
\* socketRef.current.emit when the socket is connected, else the REST call up
\* to its await.
EmitOrFallback(op, valid, request) ==
    /\ Input
    /\ IF ~valid
         THEN /\ did' = Did(op, "none", NoMessage)
              /\ UNCHANGED <<client, outbox>>
         ELSE IF client.connected
           THEN /\ outbox' = Append(outbox, request)
                /\ did' = Did(op, "socket", NoMessage)
                /\ UNCHANGED client
           ELSE /\ client' = [client EXCEPT !.pending = @ \cup
                                {Op(RestCall[request.event], request.chatId, request.messageId,
                                    request.content, Current)}]
                /\ did' = Did(op, "rest", NoMessage)
                /\ UNCHANGED outbox
    /\ UNCHANGED <<remote, inbox, backend>>

\* content.trim() of the bodies the user types
trim(content) == IF content = " " THEN "" ELSE content

sendMessage(chatId, content) ==
    EmitOrFallback("sendMessage", chatId # "" /\ trim(content) # "",
                   Request("sendMessage", chatId, 0, content))

editMessage(messageId, content) ==
    EmitOrFallback("editMessage", messageId # 0 /\ trim(content) # "",
                   Request("editMessage", "", messageId, content))

deleteMessage(messageId) ==
    EmitOrFallback("deleteMessage", messageId # 0, Request("deleteMessage", "", messageId, ""))

\* ---- the server and the other principals, as the browser meets them
RemoteIds == {remote[k].id : k \in 1..Len(remote)}
Row(messageId) == remote[CHOOSE k \in 1..Len(remote) : remote[k].id = messageId]

\* createdAt: new Date() of a message created now
Now == IF remote = <<>> THEN {1}
       ELSE {1 + Max({remote[k].createdAt : k \in 1..Len(remote)})}

Created(chatId, userId, content, at) ==
    [id |-> Len(remote) + 1, chatId |-> chatId, userId |-> userId, content |-> content,
     createdAt |-> at, read |-> FALSE, edited |-> FALSE, deleted |-> FALSE]

Replace(s, message) == Map(s, LAMBDA m : IF m.id = message.id THEN message ELSE m)

\* The author's request takes effect on the stored messages; the event it
\* fans out is on its way to the browser if its socket is connected.
Apply(request, userId, at, notify) ==
    LET message ==
          CASE request.event = "sendMessage" -> Created(request.chatId, userId, request.content, at)
            [] request.event = "editMessage" ->
                 [Row(request.messageId) EXCEPT !.content = request.content, !.edited = TRUE]
            [] OTHER -> [Row(request.messageId) EXCEPT !.deleted = TRUE]
        event == CASE request.event = "sendMessage" -> "chat:message"
                   [] request.event = "editMessage" -> "chat:message:update"
                   [] OTHER -> "chat:message:delete"
    IN /\ remote' = IF request.event = "sendMessage" THEN Append(remote, message)
                    ELSE Replace(remote, message)
       /\ inbox' = IF notify /\ client.connected THEN Append(inbox, Event(event, message)) ELSE inbox

\* The server accepts a request: the chat is one of the user's, the message
\* exists and is the user's.
Accepted(request, userId) ==
    IF request.event = "sendMessage" THEN isParticipant(request.chatId, userId)
    ELSE request.messageId \in RemoteIds /\ Row(request.messageId).userId = userId

\* The server handles the oldest event the browser emitted.
Serve(at) ==
    /\ outbox # <<>>
    /\ outbox' = Tail(outbox)
    /\ IF Accepted(Head(outbox), currentUser)
         THEN Apply(Head(outbox), currentUser, at, TRUE)
         ELSE UNCHANGED <<remote, inbox>>
    /\ did' = Nothing
    /\ UNCHANGED <<nEvents, client, backend>>

\* Another participant sends to the chat, edits or deletes a message of theirs.
Peer(request, at) ==
    /\ Input
    /\ \E userId \in Users \ {currentUser} :
          Accepted(request, userId) /\ Apply(request, userId, at, TRUE)
    /\ did' = Nothing
    /\ UNCHANGED <<client, outbox, backend>>

PeerSend(chatId, at) == Peer(Request("sendMessage", chatId, 0, "hello"), at)
PeerEdit(messageId, at) == Peer(Request("editMessage", "", messageId, "edited"), at)
PeerDelete(messageId, at) == Peer(Request("deleteMessage", "", messageId, ""), at)

\* The REST call of a fallback settles: after messageService.sendMessage /
\* updateMessage / deleteMessage the messages are loaded again.
Fallback(op, ok, at) ==
    /\ op \in client.pending
    /\ op.kind \in {RestCall[f] : f \in DOMAIN RestCall}
    /\ LET request == Request(CHOOSE f \in DOMAIN RestCall : RestCall[f] = op.kind,
                              op.chatId, op.messageId, op.content)
           reload == IF request.event = "sendMessage" THEN op.chatId ELSE op.activeChat
       IN IF ok /\ Accepted(request, currentUser)
            THEN /\ Apply(request, currentUser, at, FALSE)
                 /\ client' = [client EXCEPT !.pending = (@ \ {op}) \cup
                                  (IF reload = "" THEN {}
                                   ELSE {[op EXCEPT !.kind = "loadMessages", !.chatId = reload,
                                                    !.messageId = 0, !.content = ""]})]
                 /\ did' = Did(request.event, "rest:ok", NoMessage)
            ELSE /\ client' = [client EXCEPT !.pending = @ \ {op}]
                 /\ did' = Did(request.event, "rest:failed", NoMessage)
                 /\ UNCHANGED <<remote, inbox>>
    /\ UNCHANGED <<nEvents, outbox, backend>>

\* ---- the socket handlers: they see the render the effect ran in
\* Mutant: the incoming message becomes the last message whatever its time.
updateChatWithLastMessage_always(chats, message) ==
    Map(chats, LAMBDA chat :
          IF chat.id = message.chatId THEN [chat EXCEPT !.lastMessage = message] ELSE chat)

\* updateChatWithLastMessage
updateChatWithLastMessage(chats, message) ==
    Map(chats, LAMBDA chat :
          IF /\ chat.id = message.chatId
             /\ (chat.lastMessage = NoMessage \/ message.createdAt > chat.lastMessage.createdAt)
            THEN [chat EXCEPT !.lastMessage = message]
            ELSE chat)

\* handleNewMessage
handleNewMessage(message) ==
    LET activeChat == client.closure.activeChat IN
    client' = [client EXCEPT
        !.activeChatMessages =
            IF activeChat # "" /\ message.chatId = activeChat THEN Append(@, message) ELSE @,
        !.pending =
            IF activeChat # "" /\ message.chatId = activeChat /\ message.userId # currentUser
              THEN @ \cup {Op("markAsRead", message.chatId, 0, "", client.closure)}
              ELSE @,
        !.unreadMessagesCount =
            IF ~(activeChat # "" /\ message.chatId = activeChat) /\ message.userId # currentUser
              THEN @ + 1
              ELSE @,
        !.chats = updateChatWithLastMessage(@, message)]

\* handleMessageUpdate
handleMessageUpdate(updatedMessage) ==
    LET activeChat == client.closure.activeChat IN
    client' = [client EXCEPT
        !.activeChatMessages =
            IF activeChat # "" /\ updatedMessage.chatId = activeChat
              THEN Replace(@, updatedMessage)
              ELSE @,
        !.chats = updateChatWithLastMessage(@, updatedMessage)]

\* handleMessageDelete
handleMessageDelete(messageId) ==
    client' = [client EXCEPT
        !.activeChatMessages = SelectSeq(@, LAMBDA msg : msg.id # messageId),
        !.chats = Map(@, LAMBDA chat :
                        IF chat.lastMessage # NoMessage /\ chat.lastMessage.id = messageId
                          THEN [chat EXCEPT !.lastMessage =
                                  Newest(SelectSeq(client.closure.activeChatMessages,
                                                   LAMBDA msg : msg.id # messageId /\ msg.chatId = chat.id))]
                          ELSE chat)]

\* The oldest event on its way reaches the socket and its handler runs.
OnEvent ==
    /\ inbox # <<>>
    /\ client.connected
    /\ inbox' = Tail(inbox)
    /\ LET e == Head(inbox) IN
         /\ CASE e.event = "chat:message" -> handleNewMessage(e.message)
              [] e.event = "chat:message:update" -> handleMessageUpdate(e.message)
              [] OTHER -> handleMessageDelete(e.message.id)
         /\ did' = Did(e.event, "handler", e.message)
    /\ UNCHANGED <<nEvents, remote, outbox, backend>>

\* ---- the browser with its surroundings
\* The steps the provider takes by itself: its promises settle, the events on
\* their way arrive.
Settle(outcomes) ==
    \/ \E op \in client.pending, ok \in outcomes : loadChats(op, ok)
    \/ \E op \in client.pending, ok \in outcomes : loadMessages(op, ok)
    \/ \E op \in client.pending, ok \in outcomes : markChatAsRead(op, ok)
    \/ OnEvent

\* The browser receives: its socket connects and drops, the user opens c1,
\* the other participants send, edit and delete.
NextClient ==
    \/ Connect
    \/ Drop
    \/ ConnectEffect
    \/ setActiveChat("c1")
    \/ \E chatId \in Chats, at \in Now : PeerSend(chatId, at)
    \/ \E messageId \in RemoteIds, at \in Now : PeerEdit(messageId, at)
    \/ \E messageId \in RemoteIds, at \in Now : PeerDelete(messageId, at)
    \/ Settle({TRUE})

\* The browser sends: the user sends to c1, edits and deletes, over the socket
\* or through REST.
NextCalls ==
    \/ Connect
    \/ Drop
    \/ setActiveChat("c1")
    \/ \E content \in {"hi", " "} : sendMessage("c1", content)
    \/ \E messageId \in RemoteIds : editMessage(messageId, "edited")
    \/ \E messageId \in RemoteIds : deleteMessage(messageId)
    \/ \E at \in Now : Serve(at)
    \/ \E op \in client.pending, ok \in BOOLEAN, at \in Now : Fallback(op, ok, at)
    \/ Settle({TRUE})

\* The browser's views: the user opens either chat and sends to either chat,
\* over the socket or through REST.
NextViews ==
    \/ Connect
    \/ \E chatId \in Chats : setActiveChat(chatId)
    \/ \E chatId \in Chats : sendMessage(chatId, "hi")
    \/ \E at \in Now : Serve(at)
    \/ \E op \in client.pending, ok \in BOOLEAN, at \in Now : Fallback(op, ok, at)
    \/ Settle({TRUE})

\* ---- the socket's life: opening, closures, reconnection, teardown
\* socket.on('connect'): the first open or a reconnection attempt succeeded.
OnConnect ==
    /\ \/ client.manager.state = "opening"
       \/ client.manager.state = "lost" /\ client.manager.inFlight > 0
    /\ client' = [client EXCEPT !.connected = TRUE, !.isConnected = TRUE,
                                !.manager = Manager("open", 0, 0)]
    /\ did' = Nothing
    /\ UNCHANGED <<nEvents, remote, outbox, inbox, backend>>

\* socket.on('connect_error'): the first open or a reconnection attempt
\* failed.  The manager schedules the next attempt unless the attempts are
\* used up.
OnConnectError ==
    /\ \/ client.manager.state = "opening"
       \/ client.manager.state = "lost" /\ client.manager.inFlight > 0
    /\ client' = [client EXCEPT
                    !.isConnected = FALSE,
                    !.manager = IF @.state = "opening" THEN Manager("lost", 0, 0)
                                ELSE Manager(IF @.attempts >= reconnectionAttempts
                                               THEN "failed" ELSE "lost",
                                             @.attempts, @.inFlight - 1)]
    /\ did' = Nothing
    /\ UNCHANGED <<nEvents, remote, outbox, inbox, backend>>

\* Mutant: the timer starts an attempt while one is under way.
Reconnect_concurrent ==
    /\ client.manager.state = "lost"
    /\ client.manager.attempts < reconnectionAttempts
    /\ client' = [client EXCEPT !.manager.attempts = @ + 1, !.manager.inFlight = @ + 1]
    /\ did' = Nothing
    /\ UNCHANGED <<nEvents, remote, outbox, inbox, backend>>

\* The reconnection timer (reconnectionDelay) fires: the next attempt starts.
Reconnect ==
    /\ client.manager.state = "lost"
    /\ client.manager.inFlight = 0
    /\ client.manager.attempts < reconnectionAttempts
    /\ client' = [client EXCEPT !.manager.attempts = @ + 1, !.manager.inFlight = @ + 1]
    /\ did' = Nothing
    /\ UNCHANGED <<nEvents, remote, outbox, inbox, backend>>

\* socket.on('disconnect'): the open transport closed unexpectedly; what was
\* on its way is lost and the manager starts to reconnect.
OnDisconnect ==
    /\ Input
    /\ client.manager.state = "open"
    /\ client' = [client EXCEPT !.connected = FALSE, !.isConnected = FALSE,
                                !.manager = Manager("lost", 0, 0)]
    /\ inbox' = <<>>
    /\ did' = Nothing
    /\ UNCHANGED <<remote, outbox, backend>>

\* Mutant: the cleanup forgets the socket without disconnecting it.
Cleanup_keepSocket ==
    /\ Input
    /\ client.manager.state # "closed"
    /\ client' = [client EXCEPT !.manager.state = "closed"]
    /\ did' = Nothing
    /\ UNCHANGED <<remote, outbox, inbox, backend>>

\* The effect's cleanup (the provider unmounts or currentUser becomes null):
\* socketRef.current.disconnect().  A connected socket fires 'disconnect';
\* the manager stops reconnecting and nothing reaches the handlers any more.
Cleanup ==
    /\ Input
    /\ client.manager.state # "closed"
    /\ client' = [client EXCEPT !.connected = FALSE,
                                !.isConnected = IF client.connected THEN FALSE ELSE @,
                                !.manager = Manager("closed", @.attempts, 0)]
    /\ inbox' = <<>>
    /\ did' = Nothing
    /\ UNCHANGED <<remote, outbox, backend>>

\* The browser's socket from its first open to its teardown, while the user
\* opens c1 and another participant sends.
NextSocket ==
    \/ OnConnect
    \/ OnConnectError
    \/ Reconnect
    \/ OnDisconnect
    \/ Cleanup
    \/ setActiveChat("c1")
    \/ \E at \in Now : PeerSend("c1", at)
    \/ Settle({TRUE})

\* ---------------------------------------------------------------- specification
\* The server after construction, with room for `slots` pending invocations.
Start(slots) ==
    /\ nEvents = 0
    /\ sockets = <<>>
    /\ connectedUsers = [u \in Users |-> NoSocket]
    /\ messages = <<>>
    /\ files = {}
    /\ lastMessageTime = [c \in Chats |-> 0]
    /\ tasks = [i \in slots |-> Idle]
    /\ emitted = {}
    /\ last = Quiet
    /\ BrowserStart

Init == Start(1..MaxTasks)

\* The steps of the server, for the credentials the clients present and the
\* outcomes (TRUE: it answers, FALSE: it throws) of the awaited storage calls.
Run(tokens, outcomes) ==
    \/ \E tok \in tokens : Handshake(tok)
    \/ \E s \in SocketIds, ok \in outcomes : Connection(s, ok)
    \/ \E s \in SocketIds : Disconnect(s)
    \/ \E s \in SocketIds, ok \in outcomes : Disconnected(s, ok)
    \/ \E s \in SocketIds, i \in TaskIds, data \in SendData : SendMessage(s, i, data)
    \/ \E i \in TaskIds, ok \in outcomes : SendMessage_isParticipant(i, ok)
    \/ \E i \in TaskIds, ok \in outcomes : SendMessage_createMessage(i, ok)
    \/ \E i \in TaskIds, ok \in outcomes : SendMessage_updateLastMessageTime(i, ok)
    \/ \E i \in TaskIds, ok \in outcomes : SendMessage_getChatParticipants(i, ok)
    \/ \E s \in SocketIds, i \in TaskIds, data \in EditData : EditMessage(s, i, data)
    \/ \E i \in TaskIds, ok \in outcomes : EditMessage_getMessageById(i, ok)
    \/ \E i \in TaskIds, ok \in outcomes : EditMessage_updateMessage(i, ok)
    \/ \E i \in TaskIds, ok \in outcomes : EditMessage_getChatParticipants(i, ok)
    \/ \E s \in SocketIds, i \in TaskIds, data \in DeleteData : DeleteMessage(s, i, data)
    \/ \E i \in TaskIds, ok \in outcomes : DeleteMessage_getMessageById(i, ok)
    \/ \E i \in TaskIds, ok \in outcomes : DeleteMessage_updateMessage(i, ok)
    \/ \E i \in TaskIds, ok \in outcomes : DeleteMessage_getChatParticipants(i, ok)
    \/ \E s \in SocketIds, i \in TaskIds, data \in FileData : SendFile(s, i, data)
    \/ \E i \in TaskIds, ok \in outcomes : SendFile_isParticipant(i, ok)
    \/ \E i \in TaskIds, ok \in outcomes : SendFile_saveFile(i, ok)
    \/ \E i \in TaskIds, ok \in outcomes : SendFile_createMessage(i, ok)
    \/ \E i \in TaskIds, ok \in outcomes : SendFile_updateLastMessageTime(i, ok)
    \/ \E i \in TaskIds, ok \in outcomes : SendFile_getChatParticipants(i, ok)

\* Every principal may connect; the storage collaborator answers every call.
Next == Run(Tokens, {TRUE})

Spec == Init /\ [][Next]_vars

\* A participant of c1 and a principal outside it connect; any awaited storage
\* call may throw.
FaultTokens == {"A", "C"}
NextFaults == Run(FaultTokens, BOOLEAN)

SpecFaults == Init /\ [][NextFaults]_vars

\* The server with the API controllers calling the socket service; any
\* awaited storage call may throw.
NextService ==
    \/ NextFaults
    \/ \E userId \in FaultTokens, event \in ServiceEvents : NotifyUser(userId, event)
    \/ \E i \in TaskIds, chatId \in InboundChats, event \in ServiceEvents :
          NotifyChat(i, chatId, event)
    \/ \E i \in TaskIds, ok \in BOOLEAN : NotifyChat_getChatParticipants(i, ok)
    \/ \E userId \in FaultTokens : IsUserConnected(userId)
    \/ GetConnectedUsers

SpecService == Init /\ [][NextService]_vars

\* The browser alone, against a server that admits it and answers.
SpecClient == Init /\ [][NextClient]_vars
SpecCalls == Init /\ [][NextCalls]_vars
SpecViews == Init /\ [][NextViews]_vars

\* The socket's life.  The reconnection timer fires and every connection
\* attempt ends (timeout: 10000); the provider's promises settle and the
\* events on their way arrive.
SpecSocket ==
    /\ Init
    /\ [][NextSocket]_vars
    /\ WF_vars(Reconnect)
    /\ WF_vars(OnConnect \/ OnConnectError)
    /\ WF_vars(Settle({TRUE}))

\* One channel of A, whose handlers overlap: a client event is dispatched as
\* soon as it arrives, also while an earlier handler of the socket awaits
\* storage.  Each edit carries the body that names its place in the order of
\* arrival.
EditBodies == <<"e1", "e2", "e3", "e4", "e5", "e6", "e7", "e8">>
OrderedEdit(m) == [NoData EXCEPT !.messageId = m, !.content = EditBodies[nEvents + 1]]
Sent(i) == CHOOSE k \in 1..Len(EditBodies) : EditBodies[k] = tasks[i].data.content

InitOverlap == Start(1..(MaxTasks + 1))

NextOverlap ==
    \/ Handshake("A")
    \/ \E s \in SocketIds : Connection(s, TRUE)
    \/ \E s \in SocketIds, i \in TaskIds, data \in SendData : SendMessage(s, i, data)
    \/ \E i \in TaskIds : SendMessage_isParticipant(i, TRUE)
    \/ \E i \in TaskIds : SendMessage_createMessage(i, TRUE)
    \/ \E i \in TaskIds : SendMessage_updateLastMessageTime(i, TRUE)
    \/ \E i \in TaskIds : SendMessage_getChatParticipants(i, TRUE)
    \/ \E s \in SocketIds, i \in TaskIds, m \in DOMAIN messages : EditMessage(s, i, OrderedEdit(m))
    \/ \E i \in TaskIds : EditMessage_getMessageById(i, TRUE)
    \/ \E i \in TaskIds : EditMessage_updateMessage(i, TRUE)
    \/ \E i \in TaskIds : EditMessage_getChatParticipants(i, TRUE)

SpecOverlap == InitOverlap /\ [][NextOverlap]_vars

\* The same channel, whose edits also overlap with deletes.
NextRaces ==
    \/ NextOverlap
    \/ \E s \in SocketIds, i \in TaskIds, m \in DOMAIN messages :
          DeleteMessage(s, i, [NoData EXCEPT !.messageId = m])
    \/ \E i \in TaskIds : DeleteMessage_getMessageById(i, TRUE)
    \/ \E i \in TaskIds : DeleteMessage_updateMessage(i, TRUE)
    \/ \E i \in TaskIds : DeleteMessage_getChatParticipants(i, TRUE)

SpecRaces == InitOverlap /\ [][NextRaces]_vars

\* ---------------------------------------------------------------- properties
Handlers == {"sendMessage", "editMessage", "deleteMessage", "sendFile"}

\* The last step ended handler `op` with its fan-out.
Completed(ops) == last.op \in ops /\ last.result = "ok"

\* The sockets an event of the last step was delivered to.
Recipients(event) == {e.to : e \in {d \in emitted : d.event = event}}

\* Slot i took the step that left `pc` of handler `kind`.
Took(i, kind, pc) == At(i, kind, pc) /\ tasks'[i] # tasks[i]

\* C1: for every principal P, isUserConnected(P) is true exactly when P has
\* at least one open channel.
C1_PresentIffOpenChannel ==
    \A u \in Users : isUserConnected(u) <=> ChannelsOf(u) # {}

\* C2: after a successful sendMessage in chat C, chat:message has been
\* delivered to every participant of C that has an open channel, to no
\* principal outside C, and to nobody without an open channel.
C2_SendReachesPresentParticipants ==
    Completed({"sendMessage"}) =>
        /\ \A p \in chatParticipants[last.message.chatId] :
              ChannelsOf(p) # {} => Recipients("chat:message") \cap ChannelsOf(p) # {}
        /\ \A s \in Recipients("chat:message") :
              TransportOpen(s) /\ sockets[s].user \in chatParticipants[last.message.chatId]

\* C3: when a participant has two or more open channels, a fanned-out event
\* of the chat is delivered on each of them.
C3_FanOutReachesEveryChannel ==
    Completed(Handlers) =>
        \A p \in chatParticipants[last.message.chatId] :
            Cardinality(ChannelsOf(p)) >= 2 => ChannelsOf(p) \subseteq {e.to : e \in emitted}

\* C4: a sendMessage or sendFile by a principal that is not a participant of
\* the chat ends at the participant check with an error to the sender's
\* channel only; no message or file is stored, the chat's last-activity
\* time is unchanged and nothing is fanned out.
C4_NonParticipantSendRejected ==
    [][\A i \in TaskIds :
         (tasks[i].kind \in {"sendMessage", "sendFile"}
            /\ UserOf(i) \notin chatParticipants[tasks[i].data.chatId])
         => /\ tasks[i].pc = "isParticipant"
            /\ tasks'[i] # tasks[i] =>
                 /\ tasks'[i] = Idle
                 /\ storage' = storage
                 /\ \A e \in emitted' : e.event = "error" /\ e.to = tasks[i].sock
                 /\ TransportOpen(tasks[i].sock) => emitted' # {}]_vars

C4_Witness ==
    /\ last.op \in {"sendMessage", "sendFile"}
    /\ last.result = "forbidden"
    /\ sockets[last.sock].user = "C"
    /\ emitted = {ErrorTo(last.sock, "No eres participante de este chat")}

\* C5: an editMessage or deleteMessage of a stored message by a principal
\* that is not its author ends with an error to the requester's channel
\* only; the stored messages are unchanged and nothing is fanned out.
C5_NonAuthorEditDeleteRejected ==
    [][\A i \in TaskIds :
         (tasks[i].kind \in {"editMessage", "deleteMessage"}
            /\ tasks[i].data.messageId \in DOMAIN messages
            /\ messages[tasks[i].data.messageId].userId # UserOf(i))
         => /\ tasks[i].pc = "getMessageById"
            /\ tasks'[i] # tasks[i] =>
                 /\ tasks'[i] = Idle
                 /\ storage' = storage
                 /\ \A e \in emitted' : e.event = "error" /\ e.to = tasks[i].sock
                 /\ TransportOpen(tasks[i].sock) => emitted' # {}]_vars

C5_Witness ==
    /\ last.op = "editMessage"
    /\ last.result = "forbidden"
    /\ emitted = {ErrorTo(last.sock, "No tienes permiso para editar este mensaje")}
    /\ \E m \in DOMAIN messages :
          messages[m].userId # sockets[last.sock].user /\ ~messages[m].edited

\* C6: the message a sendMessage stores and fans out has as author the
\* principal its channel was admitted for at the handshake, whatever userId
\* the payload carries, and carries the submitted body, edited = false and
\* deleted = false.
C6_AuthorIsChannelPrincipal ==
    [][\A i \in TaskIds :
         LET expected == [id |-> tasks[i].message.id, content |-> tasks[i].data.content,
                          chatId |-> tasks[i].data.chatId, userId |-> sockets[tasks[i].sock].user,
                          read |-> FALSE, deleted |-> FALSE, edited |-> FALSE, fileId |-> 0] IN
         /\ (Took(i, "sendMessage", "createMessage") /\ messages' # messages) =>
               /\ tasks[i].message.id \notin DOMAIN messages
               /\ messages' = (tasks[i].message.id :> expected) @@ messages
         /\ (tasks[i].kind = "sendMessage" /\ tasks'[i] # tasks[i]) =>
               /\ tasks[i].pc # "createMessage" => messages' = messages
               /\ \A e \in emitted' :
                     \/ e.event = "error" /\ e.to = tasks[i].sock
                     \/ e.event = "chat:message" /\ e.payload = expected]_vars

\* Every payload of SendData names "B": a message of A delivered to B was
\* sent with a userId field that is not its sender's.
C6_Witness ==
    /\ Completed({"sendMessage"})
    /\ sockets[last.sock].user = "A"
    /\ last.message.userId = "A"
    /\ \E e \in emitted : e.event = "chat:message" /\ sockets[e.to].user = "B"
                          /\ e.payload.userId = "A" /\ e.payload.content = "hello"

\* C7: a channel whose credential is missing or fails verification is
\* never admitted: the refused handshake changes neither the sockets nor
\* the presence map, emits nothing, and every socket and every handler
\* invocation belongs to a verified credential.
C7_OnlyVerifiedChannelsAdmitted ==
    [][/\ \A s \in DOMAIN sockets' :
             sockets'[s].token \in Users /\ sockets'[s].user = sockets'[s].token
       /\ \A i \in TaskIds : tasks'[i].kind # "idle" => tasks'[i].sock \in DOMAIN sockets'
       /\ \A u \in Users : connectedUsers'[u] # NoSocket => connectedUsers'[u] \in DOMAIN sockets'
       /\ (last'.op = "handshake" /\ last'.result = "rejected") =>
             /\ sockets' = sockets /\ connectedUsers' = connectedUsers
             /\ tasks' = tasks /\ storage' = storage /\ emitted' = {}]_vars

C7_Witness ==
    /\ last.op = "handshake" /\ last.result = "rejected"
    /\ \E s \in SocketIds : TransportOpen(s)

\* C8: the delete of a message by its author sets deleted = true on the
\* stored row and changes nothing else of it, no row is ever removed, and
\* chat:message:delete carries the message id alone.
C8_DeleteIsLogical ==
    [][/\ DOMAIN messages \subseteq DOMAIN messages'
       /\ \A i \in TaskIds :
            LET m == tasks[i].data.messageId IN
            /\ (Took(i, "deleteMessage", "updateMessage") /\ messages' # messages) =>
                  /\ messages[m].userId = UserOf(i)
                  /\ messages' = [messages EXCEPT ![m] = [messages[m] EXCEPT !.deleted = TRUE]]
            /\ (tasks[i].kind = "deleteMessage" /\ tasks'[i] # tasks[i]) =>
                  /\ tasks[i].pc # "updateMessage" => messages' = messages
                  /\ \A e \in emitted' :
                        \/ e.event = "error" /\ e.to = tasks[i].sock
                        \/ e.event = "chat:message:delete" /\ e.payload = [messageId |-> m]]_vars

C8_Witness ==
    /\ Completed({"deleteMessage"})
    /\ ~last.message.deleted
    /\ messages[last.message.id].deleted
    /\ messages[last.message.id].content = "hello"
    /\ \E e \in emitted : e.event = "chat:message:delete"

\* C9: a second delete of an already deleted message by its author gives no
\* error, leaves the stored message unchanged and delivers no second
\* chat:message:delete.  (last.message is the row the handler read.)
C9_SecondDeleteIsSilent ==
    (Completed({"deleteMessage"}) /\ last.message.deleted) => emitted = {}

\* C10: user:offline for P is emitted only when P's last channel has
\* closed: while P still has an open channel, no user:offline names P.
C10_OfflineOnlyWhenAbsent ==
    \A e \in emitted : e.event = "user:offline" => ChannelsOf(e.payload.userId) = {}

\* C11: a sendFile whose envelope does not match data:<type>;base64,<data>
\* ends with an error to the sender's channel only; no file is stored, no
\* message is created, the chat's time is untouched and no chat:message is
\* emitted for it.
C11_MalformedEnvelopeRejected ==
    [][\A i \in TaskIds :
         (tasks[i].kind = "sendFile" /\ ~MatchesDataUri(tasks[i].data.fileData))
         => /\ tasks[i].pc = "isParticipant"
            /\ tasks'[i] # tasks[i] =>
                 /\ tasks'[i] = Idle
                 /\ storage' = storage
                 /\ \A e \in emitted' : e.event = "error" /\ e.to = tasks[i].sock
                 /\ TransportOpen(tasks[i].sock) => emitted' # {}]_vars

C11_Witness ==
    /\ last.op = "sendFile" /\ last.result = "malformed"
    /\ sockets[last.sock].user \in chatParticipants["c1"]
    /\ emitted = {ErrorTo(last.sock, "Formato de archivo inválido")}
    /\ files = {} /\ messages = <<>>

\* The outcomes of a handler that answer with an error event.
Failures == {"invalid", "forbidden", "malformed", "failed"}

\* C12: every error event (validation, forbidden, malformed attachment,
\* storage failure) is delivered only to the channel whose inbound event
\* caused it, no other channel receives it, and the step that reports it
\* leaves that channel open.
C12_ErrorsAreChannelLocal ==
    [][/\ \A e \in emitted' : e.event = "error" =>
             /\ last'.op \in Handlers /\ last'.result \in Failures
             /\ e.to = last'.sock
             /\ \A i \in TaskIds : tasks'[i] # tasks[i] => tasks[i].sock = e.to
             /\ sockets[e.to].status = "open" /\ sockets'[e.to].status = "open"
       /\ (last'.op \in Handlers /\ last'.result \in Failures) =>
             /\ sockets' = sockets
             /\ \A e \in emitted' : e.event = "error" /\ e.to = last'.sock
             /\ sockets[last'.sock].status = "open" => emitted' # {}]_vars

\* A storage call of A's request threw while C's channel was open: the error
\* went to A's channel alone.
C12_Witness ==
    /\ last.op \in Handlers /\ last.result = "failed"
    /\ sockets[last.sock].status = "open"
    /\ \E s \in SocketIds : s # last.sock /\ sockets[s].status = "open"
    /\ \E e \in emitted : e.event = "error" /\ e.to = last.sock
    /\ Cardinality(emitted) = 1

\* C13: inbound events of one channel are processed in FIFO order: two edits
\* of a message sent in order e1, e2 on one channel are applied in that
\* order, so once both are applied the stored body is e2's.
C13_EditsAppliedInSendOrder ==
    \A i, j \in TaskIds :
        (/\ At(i, "editMessage", "getChatParticipants")
         /\ At(j, "editMessage", "getChatParticipants")
         /\ tasks[i].sock = tasks[j].sock
         /\ tasks[i].data.messageId = tasks[j].data.messageId
         /\ Sent(i) < Sent(j))
        => messages[tasks[j].data.messageId].content = tasks[j].data.content

C15_OpenReloadsConversations ==
    [][(~client.connected /\ client'.connected /\ client.chats # getChats)
         => /\ client'.isConnected
            /\ \E op \in client'.pending : op.kind = "loadChats"]_vars

\* C16: when the handler of message-deleted for m has run, the open
\* conversation's view holds no m, and every conversation whose last-message
\* projection was m now shows the most recent message of that conversation
\* that remains in the view, or none when no such message remains.
C16_DeleteReprojectsLastMessage ==
    [][(did'.op = "chat:message:delete" /\ did'.path = "handler")
         => LET m == did'.message.id
                view == client'.activeChatMessages
            IN /\ \A k \in 1..Len(view) : view[k].id # m
               /\ Len(client'.chats) = Len(client.chats)
               /\ \A k \in 1..Len(client.chats) :
                     client.chats[k].lastMessage.id = m
                       => client'.chats[k].lastMessage =
                            Newest(SelectSeq(view, LAMBDA msg : msg.chatId = client.chats[k].id))]_vars

\* C17: the handler of message-created decides against the conversation that
\* is open when the event is handled: a message of that conversation is
\* appended to the view and the unread counter keeps its value; any other
\* message adds one to the counter unless the local principal wrote it.
C17_NewMessageMeetsOpenConversation ==
    [][(did'.op = "chat:message" /\ did'.path = "handler")
         => LET message == did'.message IN
            IF client.activeChat # "" /\ message.chatId = client.activeChat
              THEN /\ client'.activeChatMessages = Append(client.activeChatMessages, message)
                   /\ client'.unreadMessagesCount = client.unreadMessagesCount
              ELSE client'.unreadMessagesCount =
                     client.unreadMessagesCount + (IF message.userId # currentUser THEN 1 ELSE 0)]_vars

\* C18: when the handler of message-updated for m has run, the view has the
\* length it had; the updated message stands where m stood if m was in the
\* view, and every other entry is the one it was.
C18_UpdateReplacesInPlace ==
    [][(did'.op = "chat:message:update" /\ did'.path = "handler")
         => LET updatedMessage == did'.message
                view == client.activeChatMessages
            IN /\ Len(client'.activeChatMessages) = Len(view)
               /\ \A k \in 1..Len(view) :
                     client'.activeChatMessages[k] =
                       IF view[k].id = updatedMessage.id THEN updatedMessage ELSE view[k]]_vars

\* C19: a sendMessage to the open conversation made while the socket is
\* connected emits the event and at once appends an entry with the sent body
\* to the view; when the message-created confirmation of a message of the
\* local principal in the open conversation has been handled, the view holds
\* exactly one entry for that message.
C19_SendAppendsAndReconciles ==
    [][/\ (did'.op = "sendMessage" /\ did'.path = "socket"
             /\ outbox'[Len(outbox')].chatId = client.activeChat)
          => /\ outbox' = Append(outbox, outbox'[Len(outbox')])
             /\ Len(client'.activeChatMessages) = Len(client.activeChatMessages) + 1
             /\ client'.activeChatMessages[Len(client'.activeChatMessages)].content
                  = outbox'[Len(outbox')].content
       /\ (did'.op = "chat:message" /\ did'.path = "handler"
             /\ did'.message.userId = currentUser /\ did'.message.chatId = client.activeChat)
          => Cardinality({k \in 1..Len(client'.activeChatMessages) :
                            client'.activeChatMessages[k].id = did'.message.id}) = 1]_vars

\* C20: a valid send, edit or delete call made while the socket is not
\* connected starts the REST call, emits nothing and leaves the view as it
\* is; one made while it is connected emits and starts no REST call; and when
\* the REST call has succeeded a reload of the messages of the conversation
\* the mutation belongs to is under way.
C20_FallbackReloadsAffectedConversation ==
    [][/\ did'.path = "rest"
          => /\ ~client.connected
             /\ outbox' = outbox
             /\ client'.activeChatMessages = client.activeChatMessages
       /\ did'.path = "socket"
          => /\ client.connected
             /\ client'.pending = client.pending
       /\ did'.path = "rest:ok"
          => \A op \in client.pending \ client'.pending :
                LET affected == IF op.kind = RestCall.sendMessage THEN op.chatId
                                ELSE Row(op.messageId).chatId
                IN \E load \in client'.pending :
                      load.kind = "loadMessages" /\ load.chatId = affected]_vars

C22_NothingAfterTeardown ==
    /\ [](client.manager.state = "closed"
            => ~client.connected /\ ~client.isConnected /\ client.manager.inFlight = 0)
    /\ [][client.manager.state = "closed"
            => /\ client'.manager = client.manager
               /\ did'.path # "handler"
               /\ inbox' = <<>>]_vars

\* The socket was torn down after the handler of message-created had counted
\* a message of c1's other participant; a message sent to c1 since then has
\* not reached the conversation list.
C22_Witness ==
    /\ client.manager.state = "closed"
    /\ ~client.isConnected
    /\ client.unreadMessagesCount = 2
    /\ \E k \in 1..Len(client.chats) :
          /\ client.chats[k].id = "c1"
          /\ client.chats[k].lastMessage.id < Newest(getMessages("c1")).id

\* C23: when the connection handler of an open channel of principal P has
\* run, user:online carrying P's id has been delivered to exactly the
\* principals other than P that share a chat with P and have an open channel.
C23_OnlineReachesPresentPeers ==
    (last.op = "connection" /\ last.result = "ok" /\ sockets[last.sock].status = "open") =>
        LET P == sockets[last.sock].user
            online == {e \in emitted : e.event = "user:online"}
        IN /\ \A e \in online : e.payload = [userId |-> P]
           /\ {sockets[e.to].user : e \in online} =
                 {q \in Users \ {P} : /\ \E c \in getUserChats(P) : q \in chatParticipants[c]
                                      /\ ChannelsOf(q) # {}}

\* C24: a step that delivers chat:message for message M writes nothing, and
\* at that step M's row is in storage with M's id, chat and author and the
\* chat's last-activity time has been set: a reader of storage at or after
\* the delivery finds M.
C24_DeliveredAfterPersisted ==
    [][\A e \in emitted' : e.event = "chat:message" =>
          /\ storage' = storage
          /\ e.payload.id \in DOMAIN messages
          /\ messages[e.payload.id].chatId = e.payload.chatId
          /\ messages[e.payload.id].userId = e.payload.userId
          /\ lastMessageTime[e.payload.chatId] > 0
          /\ \E i \in TaskIds : /\ Took(i, tasks[i].kind, "getChatParticipants")
                                /\ tasks[i].kind \in {"sendMessage", "sendFile"}
                                /\ tasks[i].message = e.payload]_vars

\* An attachment's message was delivered to its sender: its row and its file
\* are stored and c1's last-activity time is set.
C24_Witness ==
    /\ Completed({"sendFile"})
    /\ \E e \in emitted : e.event = "chat:message" /\ e.payload = messages[last.message.id]
    /\ files # {}
    /\ lastMessageTime[last.message.chatId] > 0

\* The fields each handler requires, and its answer when one is missing.
Complete(kind, data) ==
    CASE kind = "sendMessage" -> data.chatId # "" /\ data.content # ""
      [] kind = "editMessage" -> data.messageId # 0 /\ data.content # ""
      [] kind = "deleteMessage" -> data.messageId # 0
      [] kind = "sendFile" -> data.chatId # "" /\ data.filename # "" /\ data.fileData # <<>>

Incomplete ==
    [sendMessage |-> "Datos incompletos para enviar mensaje",
     editMessage |-> "Datos incompletos para editar mensaje",
     deleteMessage |-> "ID de mensaje requerido",
     sendFile |-> "Datos incompletos para enviar archivo"]

\* C25: an inbound send, edit, delete or attachment event either has all its
\* required fields, and only then is a storage call awaited for it, or it is
\* answered in the same step by the handler's validation error on its own
\* channel alone, with storage untouched, no storage call awaited and
\* nothing fanned out.
C25_ValidationBeforeStorage ==
    [][/\ \A i \in TaskIds :
             (tasks[i] = Idle /\ tasks'[i] # Idle)
                => /\ Complete(tasks'[i].kind, tasks'[i].data)
                   /\ storage' = storage /\ emitted' = {}
       /\ (last'.op \in Handlers /\ last'.result = "invalid")
             => /\ nEvents' = nEvents + 1
                /\ tasks' = tasks
                /\ storage' = storage
                /\ emitted' = {ErrorTo(last'.sock, Incomplete[last'.op])}]_vars

\* A delete event without a message id was answered on its own channel while
\* a message was stored and no handler was pending.
C25_Witness ==
    /\ last.op = "deleteMessage" /\ last.result = "invalid"
    /\ emitted = {ErrorTo(last.sock, Incomplete.deleteMessage)}
    /\ messages # <<>>
    /\ \A i \in TaskIds : tasks[i] = Idle

\* C26: a request refused because its sender is not a participant of the
\* chat, or not the author of the message, is answered on its channel with
\* the very payload the same handler gives a request with a missing field.
C26_ForbiddenLooksLikeInvalid ==
    (last.op \in Handlers /\ last.result = "forbidden")
        => emitted = {ErrorTo(last.sock, Incomplete[last.op])}

\* The answer of each handler's catch block.
Generic ==
    [sendMessage |-> "Error al enviar mensaje",
     editMessage |-> "Error al editar mensaje",
     deleteMessage |-> "Error al eliminar mensaje",
     sendFile |-> "Error al enviar archivo"]

\* C27: when a storage call of a handler throws, that step writes nothing,
\* ends the handler (it leaves its slot and no handler starts without a new
\* inbound event) and delivers one event only: the handler's generic error,
\* to the channel of the inbound event if it is still open; and no step of a
\* handler before its last delivers anything.
C27_StorageFailureDropsEvent ==
    [][/\ (last'.op \in Handlers /\ last'.result = "failed")
             => /\ \E i \in TaskIds :
                      /\ tasks[i].kind = last'.op /\ tasks[i].sock = last'.sock
                      /\ tasks' = [tasks EXCEPT ![i] = Idle]
                /\ storage' = storage
                /\ nEvents' = nEvents
                /\ emitted' = IF TransportOpen(last'.sock)
                                THEN {ErrorTo(last'.sock, Generic[last'.op])} ELSE {}
       /\ \A i \in TaskIds :
             /\ (tasks[i] = Idle /\ tasks'[i] # Idle) => nEvents' = nEvents + 1
             /\ (tasks'[i] # Idle /\ tasks'[i] # tasks[i]) => emitted' = {}]_vars

\* updateLastMessageTime threw after the message had been stored: the sender
\* got the generic error and nobody got the message.
C27_Witness ==
    /\ last.op = "sendMessage" /\ last.result = "failed"
    /\ emitted = {ErrorTo(last.sock, Generic.sendMessage)}
    /\ \E m \in DOMAIN messages : lastMessageTime[messages[m].chatId] = 0
    /\ \A i \in TaskIds : tasks[i] = Idle

\* C28: when the handler of message-created has run, the conversation of the
\* message shows it as its last message if it showed none or an older one,
\* and shows what it showed otherwise; every other conversation of the list
\* shows what it showed, and the list has the conversations it had.
C28_LastMessageOnlyIfNewer ==
    [][(did'.op = "chat:message" /\ did'.path = "handler")
         => LET message == did'.message IN
            /\ Len(client'.chats) = Len(client.chats)
            /\ \A k \in 1..Len(client.chats) :
                  client'.chats[k] =
                    IF /\ client.chats[k].id = message.chatId
                       /\ \/ client.chats[k].lastMessage = NoMessage
                          \/ message.createdAt > client.chats[k].lastMessage.createdAt
                      THEN [client.chats[k] EXCEPT !.lastMessage = message]
                      ELSE client.chats[k]]_vars

\* The handler has run for a message of c1 older than the one the loaded list
\* shows for c1: the list still shows the newer one.
C28_Witness ==
    /\ did.op = "chat:message" /\ did.path = "handler"
    /\ did.message.chatId = "c1"
    /\ \E k \in 1..Len(client.chats) :
          /\ client.chats[k].id = "c1"
          /\ client.chats[k].lastMessage.createdAt > did.message.createdAt
    /\ \E k \in 1..Len(client.chats) :
          client.chats[k].id = "c2" /\ client.chats[k].lastMessage = NoMessage

\* C29: when the handler of message-updated has run for the message a
\* conversation shows as its last message, the conversation shows the
\* updated message.
C29_UpdateReachesLastMessage ==
    [][(did'.op = "chat:message:update" /\ did'.path = "handler")
         => \A k \in 1..Len(client.chats) :
               client.chats[k].lastMessage.id = did'.message.id
                 => client'.chats[k].lastMessage = did'.message]_vars

\* C30: the presence registry changes only in the step that admits a socket
\* (the entry of its user is set to it) and in the step that starts the
\* disconnect handler of an open socket (the entry of its user is removed);
\* the steps of the send, edit, delete and attachment handlers and the calls
\* of notifyUser, notifyChat, isUserConnected and getConnectedUsers leave
\* it as it is, however they end.
C30_RegistryChangedByOpenAndCloseOnly ==
    [][/\ connectedUsers' # connectedUsers
          => \/ /\ Len(sockets') = Len(sockets) + 1
                /\ connectedUsers' =
                     [connectedUsers EXCEPT ![sockets'[Len(sockets')].user] = Len(sockets')]
             \/ \E s \in SocketIds :
                   /\ sockets[s].status = "open" /\ sockets'[s].status = "closing"
                   /\ connectedUsers' = [connectedUsers EXCEPT ![sockets[s].user] = NoSocket]
       /\ (tasks' # tasks \/ last'.op \in Handlers \cup Service)
          => connectedUsers' = connectedUsers]_vars

\* notifyUser was called for a principal whose registered socket has closed:
\* nothing was delivered and the entry is still there.
C30_Witness ==
    /\ last.op = "notifyUser"
    /\ emitted = {}
    /\ \E u \in Users : connectedUsers[u] # NoSocket /\ ~TransportOpen(connectedUsers[u])

\* ---------------------------------------------------------------- the last claims
\* C31: the socket is registered in the step that admits it, before the
\* chats of its user are read; when that read throws, the connection handler
\* still installs the socket's handlers (the socket is open for inbound
\* events) and leaves the registry as it is.  The disconnect handler removes
\* the entry of the user before it reads the chats; when that read throws,
\* the handler ends, the socket is closed and the registry is left as it is.
C31_EnumerationFailureCompletes ==
    [][/\ Len(sockets') = Len(sockets) + 1
          => /\ sockets'[Len(sockets')].status = "connecting"
             /\ connectedUsers'[sockets'[Len(sockets')].user] = Len(sockets')
       /\ (last'.op = "connection" /\ last'.result = "failed"
             /\ sockets[last'.sock].status = "connecting")
          => /\ sockets'[last'.sock].status = "open"
             /\ connectedUsers' = connectedUsers
             /\ emitted' = {}
       /\ \A s \in SocketIds :
             (sockets[s].status = "open" /\ sockets'[s].status # "open")
                => /\ sockets'[s].status = "closing"
                   /\ connectedUsers'[sockets[s].user] = NoSocket
       /\ (last'.op = "disconnect" /\ last'.result = "failed"
             /\ sockets[last'.sock].status = "closing")
          => /\ sockets'[last'.sock].status = "closed"
             /\ connectedUsers' = connectedUsers
             /\ emitted' = {}]_vars

\* Reading the chats threw at the open of a channel: the channel is open and
\* its user registered, after an earlier channel of another user was closed
\* by its disconnect handler and left no entry.
C31_Witness ==
    /\ last.op = "connection" /\ last.result = "failed"
    /\ sockets[last.sock].status = "open"
    /\ connectedUsers[sockets[last.sock].user] = last.sock
    /\ \E s \in SocketIds :
          /\ sockets[s].status = "closed"
          /\ sockets[s].user # sockets[last.sock].user
          /\ connectedUsers[sockets[s].user] = NoSocket

\* C32: a channel that has closed and whose connection and disconnect
\* handlers have nothing left to run is not named by the presence registry:
\* whenever the close happened, the entry it registered is gone by then.
C32_ClosedChannelUnregistered ==
    \A u \in Users :
       connectedUsers[u] # NoSocket => sockets[connectedUsers[u]].status # "closed"

\* C33: when a conversation is open and the provider awaits nothing, every
\* message of the open conversation's view (activeChatMessages) is a message
\* of the open conversation (activeChat).
C33_ViewBelongsToOpenConversation ==
    (client.activeChat # "" /\ client.pending = {})
       => \A k \in 1..Len(client.activeChatMessages) :
             client.activeChatMessages[k].chatId = client.activeChat

\* C34: the open conversation's view (activeChatMessages) never holds two
\* entries with the same message id, however the message-created events
\* and the answers of the reloads interleave.
C34_NoDuplicateInView ==
    \A j, k \in 1..Len(client.activeChatMessages) :
       j # k => client.activeChatMessages[j].id # client.activeChatMessages[k].id

\* C35: no message-updated event (chat:message:update) is delivered that
\* presents as not deleted a message whose stored row is deleted, whether
\* the edit arrived after the delete or had read the message before a
\* concurrent delete was persisted.
C35_NoUpdateOfDeletedAsLive ==
    \A e \in emitted :
       (e.event = "chat:message:update" /\ messages[e.payload.id].deleted)
          => e.payload.deleted

\* C36: when an edit delivers its message-updated event and no other edit of
\* the same message is pending, the body of the event is the body stored for
\* the message: storage and the participants' views agree on the final body.
C36_FinalBodyAgrees ==
    [][\A e \in emitted' :
          (/\ e.event = "chat:message:update"
           /\ \A i \in TaskIds :
                 ~(tasks'[i].kind = "editMessage" /\ tasks'[i].data.messageId = e.payload.id))
          => messages'[e.payload.id].content = e.payload.content]_vars

\* C37: an edit or a delete that names a message id storage has no row for
\* ends in the step that reads the message: the handler's error goes to the
\* channel of the event and to no other, storage is written nowhere, nothing
\* is fanned out, and the channel and the registry stay as they are, so the
\* channel goes on receiving events.
C37_UnknownMessageRejected ==
    [][\A i \in TaskIds :
          (/\ tasks[i].kind \in {"editMessage", "deleteMessage"}
           /\ tasks[i].pc = "getMessageById"
           /\ tasks[i].data.messageId \notin DOMAIN messages
           /\ tasks'[i] # tasks[i])
          => /\ tasks'[i] = Idle
             /\ last' = Step(tasks[i].kind, tasks[i].sock, "failed", NoMsg)
             /\ emitted' = IF TransportOpen(tasks[i].sock)
                             THEN {ErrorTo(tasks[i].sock, Generic[tasks[i].kind])} ELSE {}
             /\ storage' = storage
             /\ sockets' = sockets
             /\ connectedUsers' = connectedUsers]_vars

\* A delete named an id with no row while another message was stored: its
\* channel got the error and is still open, and the stored message is not
\* deleted.
C37_Witness ==
    /\ last.op = "deleteMessage" /\ last.result = "failed"
    /\ emitted = {ErrorTo(last.sock, Generic.deleteMessage)}
    /\ sockets[last.sock].status = "open"
    /\ messages # <<>>
    /\ \A m \in DOMAIN messages : ~messages[m].deleted

\* C38: when no attachment handler is pending, an attachment is stored
\* exactly if a stored message refers to its id: whatever the outcome of the
\* handler, also when a storage call between its steps threw.
C38_AttachmentAllOrNothing ==
    (\A i \in TaskIds : tasks[i].kind # "sendFile")
       => /\ \A f \in files : \E m \in DOMAIN messages : messages[m].fileId = f.id
          /\ \A m \in DOMAIN messages :
                messages[m].fileId # 0 => \E f \in files : f.id = messages[m].fileId

\* C39: when markChatAsRead(c) has completed (its call of markAsRead has
\* answered), the unread counter is the number of conversations of the
\* list, with c's last message marked read, whose last message is unread and
\* written by somebody else.
C39_CounterAfterMarkAsRead ==
    [][\A op \in client.pending :
          (op.kind = "markAsRead" /\ op \notin client'.pending)
          => client'.unreadMessagesCount = UnreadIn(client'.chats)]_vars

====
